---- MODULE Spec2Model ----
(***************************************************************************)
(* The tool-calling loop of SupersetAgent (src/agent.py): chat and         *)
(* _execute_tool, with the language model and the six Superset             *)
(* collaborators as the environment.                                       *)
(*                                                                         *)
(* Text is a sequence of tokens (a token is a piece of text without quote  *)
(* or backslash, or one of those two characters), so that json.dumps can   *)
(* be modelled by what it does to a string.  A Python dict with one string *)
(* valued key is a record with that field; the empty mapping is << >>.     *)
(*                                                                         *)
(* An action is one stretch of chat between two points where it waits for  *)
(* the environment: the synchronous client.chat call and the awaited       *)
(* collaborator call.  log records, per chat call, what crossed that       *)
(* boundary; the properties are stated over it.                            *)
(*                                                                         *)
(* Specifications: Spec, one chat call with the model free to ask for      *)
(* several tools at once; FairSpec, Spec with the model and collaborators  *)
(* answering; SessionSpec, chat calls in sequence on one instance;         *)
(* TwoInstanceSpec and OneInstanceSpec, two callers on one event loop.     *)
(***************************************************************************)
EXTENDS Integers, Sequences, FiniteSets

VARIABLES
    history,     \* self.history
    pc,          \* where chat stands: "idle", "await_model", "tools"
    rnd,         \* iterations of the for loop completed in the running chat
    message,     \* chat's local `message` (the last model response)
    idx,         \* index in tool_calls of the next request the inner loop takes
    inflight,    \* the _execute_tool calls that await their collaborator
    mainLoaded,  \* whether module main is in sys.modules
    outcome,     \* how the last chat call ended (none while one runs)
    nchats,      \* chat calls the running caller has made on its instance
    log,         \* what the running chat call did at its boundary, in order
    sent,        \* messages= of the last client.chat call
    sentTools,   \* names in tools= of the last client.chat call
    cur,         \* the agent instance the running caller calls chat on
    parked       \* the other caller: its instance and its chat, not running

vars == <<history, pc, rnd, message, idx, inflight, mainLoaded, outcome,
          nchats, log, sent, sentTools, cur, parked>>

----------------------------------------------------------------------------
(* Bounds of the model *)

MaxChats == 1
MaxHist == 12
MaxCalls == 2

----------------------------------------------------------------------------
(* Program constants *)

MaxTurns == 5

SYSTEM_PROMPT == <<"You are a Superset Data Analyst Agent.">>

LoopLimitMessage == <<"Agent loop limit reached without final answer.">>

OllamaErrorPrefix == <<"Error communicating with Ollama: ">>

UnknownToolPrefix == "Unknown tool: "

QUOTE == "\""

BSLASH == "\\"

\* The names of the tools list built in chat, in order.
ToolSchemaNames ==
    << "superset_database_list",
       "superset_database_get_tables",
       "superset_database_schemas",
       "superset_sqllab_execute_query",
       "superset_chart_create",
       "superset_dataset_list" >>

----------------------------------------------------------------------------
(* Inputs *)

Queries == { <<"list databases">> }

AnswerTexts == { <<"Found 1 database: ", QUOTE, "examples", QUOTE>> }

ModelErrors == { <<"connection refused">> }

CollabErrors == { <<"no table ", QUOTE, "x", QUOTE>> }

CollabResults == { [rows |-> <<"examples">>] }

\* The tool invocation requests the model makes: the database listing of the
\* system prompt's first step, and the same name with two letters swapped.
ToolCalls ==
    { [function |-> [name |-> "superset_database_list", arguments |-> << >>]],
      [function |-> [name |-> "superset_database_lsit", arguments |-> << >>]] }

RequestNames == { tc.function.name : tc \in ToolCalls }

ToolCallLists ==
    UNION { [1..k -> ToolCalls] : k \in 1..MaxCalls }

\* What client.chat can answer: text alone (tool_calls absent or empty), or
\* a list of tool invocation requests.
Responses ==
    { [role |-> "assistant", content |-> t] : t \in AnswerTexts }
    \cup { [role |-> "assistant", content |-> t, tool_calls |-> << >>] :
             t \in AnswerTexts }
    \cup { [role |-> "assistant", content |-> << >>, tool_calls |-> tcs] :
             tcs \in ToolCallLists }

----------------------------------------------------------------------------
(* Pure functions *)

RECURSIVE JsonEscape(_)
\* json.dumps of the characters of a string: quote and backslash escaped.
JsonEscape(s) ==
    IF s = << >> THEN << >>
    ELSE LET c == Head(s)
         IN  (IF c = QUOTE \/ c = BSLASH THEN <<BSLASH, c>> ELSE <<c>>)
             \o JsonEscape(Tail(s))

\* json.dumps(tool_result, default=str) of a one-key dict with a string value.
JsonDumps(v) ==
    LET k == CHOOSE x \in DOMAIN v : TRUE
    IN  <<"{", QUOTE, k, QUOTE, ": ", QUOTE>> \o JsonEscape(v[k])
        \o <<QUOTE, "}">>

\* message.get('tool_calls'), with None read as the empty list.
ToolCallsOf(m) ==
    IF "tool_calls" \in DOMAIN m THEN m.tool_calls ELSE << >>

\* Mutant of DispatchBranchNames: one branch compares with a misspelt name.
DispatchBranchNamesTypo ==
    << "superset_database_list",
       "superset_database_schemas",
       "superset_database_get_tables",
       "superset_sqllab_execute_query",
       "superset_chart_create",
       "superset_datasets_list" >>

\* The names the if/elif chain of _execute_tool compares with, in order.
DispatchBranchNames ==
    << "superset_database_list",
       "superset_database_schemas",
       "superset_database_get_tables",
       "superset_sqllab_execute_query",
       "superset_chart_create",
       "superset_dataset_list" >>

\* The if/elif chain of _execute_tool: the collaborator a name selects (each
\* branch calls the function of its own name), "unknown" for the else branch.
Resolve(name) ==
    IF \E i \in 1..Len(DispatchBranchNames) : DispatchBranchNames[i] = name
    THEN name
    ELSE "unknown"

\* Every name the model can see, request or have dispatched.
NameUniverse ==
    { ToolSchemaNames[i] : i \in 1..Len(ToolSchemaNames) }
    \cup { DispatchBranchNames[i] : i \in 1..Len(DispatchBranchNames) }
    \cup { "superset_datasets_list" }
    \cup RequestNames

\* The keyword parameters the selected collaborator is called with.
Kwargs(name, args) ==
    IF name \in {"superset_database_list", "superset_dataset_list"}
    THEN << >>
    ELSE args

UnknownToolResult(name) == [error |-> <<UnknownToolPrefix, name>>]

\* Mutant of ToolMessage: every tool message is tagged with the role's name.
ToolMessageTaggedByRole(name, result) ==
    [role |-> "tool", content |-> JsonDumps(result), name |-> "tool"]

\* Mutant of ToolMessage: the tag is the resolved collaborator, not the request.
ToolMessageTaggedResolved(name, result) ==
    [role |-> "tool", content |-> JsonDumps(result), name |-> Resolve(name)]

\* Mutant of ErrorResult: the exception's message is dropped.
ErrorResultGeneric(e) == [error |-> <<"tool failed">>]

\* except Exception as e: return {"error": str(e)}
ErrorResult(e) == [error |-> e]

ToolMessage(name, result) ==
    [role |-> "tool", content |-> JsonDumps(result), name |-> name]

UserMessage(q) == [role |-> "user", content |-> q]

\* Mutant of AnswerOf: the content is returned in its JSON-escaped form.
AnswerOfEscaped(m) == JsonEscape(m.content)

\* return message['content']
AnswerOf(m) == m.content

\* f"Error communicating with Ollama: {str(e)}"
ModelErrorText(e) == OllamaErrorPrefix \o e

\* Mutant of MessagesArg: the model is sent the system prompt and the
\* messages of the current query alone.
MessagesArgCurrentQuery(h) ==
    LET u == CHOOSE i \in DOMAIN h :
                 /\ h[i].role = "user"
                 /\ \A k \in DOMAIN h : h[k].role = "user" => k <= i
    IN  <<h[1]>> \o SubSeq(h, u, Len(h))

\* messages= of client.chat: the history list itself.
MessagesArg(h) == h

\* range(5): whether the for loop has another iteration after r of them.
LoopContinues(r) == r < MaxTurns

\* Mutant of CanStart: the requests of a round are dispatched without awaiting.
CanStartUnawaited == TRUE

\* The inner for loop awaits each _execute_tool before taking the next request.
CanStart == inflight = {}

NoMessage == [role |-> "none", content |-> << >>]

NoOutcome == [kind |-> "none", value |-> << >>]

Returned(v) == [kind |-> "return", value |-> v]

Raised(v) == [kind |-> "raise", value |-> v]

\* A caller that has not called chat yet, on agent instance i as __init__
\* leaves it.
IdleCaller(i) ==
    [ self |-> i,
      history |-> << [role |-> "system", content |-> SYSTEM_PROMPT] >>,
      pc |-> "idle", rnd |-> 0, message |-> NoMessage, idx |-> 1,
      inflight |-> {}, outcome |-> NoOutcome, nchats |-> 0, log |-> << >>,
      sent |-> << >>, sentTools |-> << >> ]

\* Mutant of InstanceHistory: history is one list for every instance (a class
\* attribute), so the instance resumed finds the list as the other left it.
InstanceHistoryShared(a) == history

\* self.history of instance a: its own list, made in __init__.
InstanceHistory(a) == a.history

\* Mutant of NoChatRunning: chat is invoked whatever the instance is doing.
NoChatRunningUnchecked == TRUE

\* The caller's discipline: chat is invoked on an instance only while no chat
\* call is running on it, neither the caller's own nor, when the other caller
\* uses the same instance, the other's.
NoChatRunning ==
    /\ pc = "idle"
    /\ parked.self = cur => parked.pc = "idle"

----------------------------------------------------------------------------
(* State machine *)

InitAgent ==
    /\ history = << [role |-> "system", content |-> SYSTEM_PROMPT] >>
    /\ pc = "idle"
    /\ rnd = 0
    /\ message = NoMessage
    /\ idx = 1
    /\ inflight = {}
    /\ mainLoaded = FALSE
    /\ outcome = NoOutcome
    /\ nchats = 0
    /\ log = << >>
    /\ sent = << >>
    /\ sentTools = << >>
    /\ cur = 1

\* One agent instance and its caller; a second instance stands by, unused.
Init == InitAgent /\ parked = IdleCaller(2)

\* self.client.chat(model=..., messages=self.history, tools=tools) is issued.
CallModel(h, lg) ==
    /\ pc' = "await_model"
    /\ sent' = MessagesArg(h)
    /\ sentTools' = ToolSchemaNames
    /\ log' = Append(lg, [ev |-> "model_call",
                          tools |-> { ToolSchemaNames[i] :
                                        i \in 1..Len(ToolSchemaNames) }])

\* The end of one iteration of the for loop over range(5).
EndRound(h, lg) ==
    /\ rnd' = rnd + 1
    /\ IF LoopContinues(rnd + 1)
       THEN /\ CallModel(h, lg)
            /\ outcome' = outcome
       ELSE /\ pc' = "idle"
            /\ outcome' = Returned(LoopLimitMessage)
            /\ log' = lg
            /\ UNCHANGED <<sent, sentTools>>

\* Mutant of Chat: each query starts the conversation afresh.
ChatStartsAfresh(q) ==
    /\ NoChatRunning
    /\ history' = << [role |-> "system", content |-> SYSTEM_PROMPT],
                     UserMessage(q) >>
    /\ nchats' = nchats + 1
    /\ rnd' = 0
    /\ message' = NoMessage
    /\ idx' = 1
    /\ inflight' = {}
    /\ outcome' = NoOutcome
    /\ CallModel(history', << >>)
    /\ UNCHANGED <<mainLoaded, cur, parked>>

\* chat(query) up to its first model call.
Chat(q) ==
    /\ NoChatRunning
    /\ Len(history) + 2 <= MaxHist
    /\ history' = Append(history, UserMessage(q))
    /\ nchats' = nchats + 1
    /\ rnd' = 0
    /\ message' = NoMessage
    /\ idx' = 1
    /\ inflight' = {}
    /\ outcome' = NoOutcome
    /\ CallModel(history', << >>)
    /\ UNCHANGED <<mainLoaded, cur, parked>>

\* Mutant of ModelRaise: the failed model call is issued again.
ModelRaiseRetry(e) ==
    /\ pc = "await_model"
    /\ pc' = "await_model"
    /\ log' = log \o << [ev |-> "model_raise", err |-> e],
                        [ev |-> "model_call", tools |-> {}] >>
    /\ UNCHANGED <<history, rnd, message, idx, inflight, mainLoaded, outcome,
                   nchats, sent, sentTools, cur, parked>>

\* Mutant of ModelRaise: the failure is also recorded in the conversation.
ModelRaiseRecorded(e) ==
    /\ pc = "await_model"
    /\ pc' = "idle"
    /\ history' = Append(history, [role |-> "assistant",
                                   content |-> ModelErrorText(e)])
    /\ outcome' = Returned(ModelErrorText(e))
    /\ log' = Append(log, [ev |-> "model_raise", err |-> e])
    /\ UNCHANGED <<rnd, message, idx, inflight, mainLoaded, nchats, sent,
                   sentTools, cur, parked>>

\* client.chat raises: except Exception as e: return f"Error ...: {str(e)}".
ModelRaise(e) ==
    /\ pc = "await_model"
    /\ pc' = "idle"
    /\ outcome' = Returned(ModelErrorText(e))
    /\ log' = Append(log, [ev |-> "model_raise", err |-> e])
    /\ UNCHANGED <<history, rnd, message, idx, inflight, mainLoaded, nchats,
                   sent, sentTools, cur, parked>>

\* client.chat answers with a message that requests no tool.
ModelAnswer(m) ==
    /\ pc = "await_model"
    /\ ToolCallsOf(m) = << >>
    /\ Len(history) + 1 <= MaxHist
    /\ history' = Append(history, m)
    /\ message' = m
    /\ pc' = "idle"
    /\ outcome' = Returned(AnswerOf(m))
    /\ log' = Append(log, [ev |-> "model_response", msg |-> m])
    /\ UNCHANGED <<rnd, idx, inflight, mainLoaded, nchats, sent, sentTools,
                   cur, parked>>

\* client.chat answers with tool invocation requests.
ModelRequestsTools(m) ==
    /\ pc = "await_model"
    /\ ToolCallsOf(m) # << >>
    /\ Len(history) + 1 + Len(ToolCallsOf(m)) <= MaxHist
    /\ history' = Append(history, m)
    /\ message' = m
    /\ pc' = "tools"
    /\ idx' = 1
    /\ inflight' = {}
    /\ log' = Append(log, [ev |-> "model_response", msg |-> m])
    /\ UNCHANGED <<rnd, mainLoaded, outcome, nchats, sent, sentTools, cur,
                   parked>>

\* The request the inner for loop takes up next.
CurrentCall == ToolCallsOf(message)[idx]

\* Mutant of RoundDone: the round ends with the first result.
RoundDoneAfterFirst(i, fl) == i > 1 /\ fl = {}

\* Whether the inner for loop is past its last request with nothing awaited.
RoundDone(i, fl) == i > Len(ToolCallsOf(message)) /\ fl = {}

\* The tool result is appended to the history; the round ends after the last.
AppendResult(name, result, i, fl, lg) ==
    /\ history' = Append(history, ToolMessage(name, result))
    /\ idx' = i
    /\ inflight' = fl
    /\ IF RoundDone(i, fl)
       THEN EndRound(history', lg)
       ELSE /\ pc' = pc
            /\ log' = lg
            /\ UNCHANGED <<rnd, outcome, sent, sentTools>>

\* _execute_tool: `from main import ...` raises. The statement stands before
\* the try, so the exception leaves _execute_tool and chat. The server runs
\* main.py as a script (module __main__), so the first dispatch is the first
\* import of module main; once an import has succeeded the module is cached
\* and the statement cannot fail again.
DispatchImportFails ==
    /\ pc = "tools"
    /\ idx <= Len(ToolCallsOf(message))
    /\ CanStart
    /\ ~mainLoaded
    /\ pc' = "idle"
    /\ outcome' = Raised(<<"ImportError">>)
    /\ log' = log \o << [ev |-> "tool_start", i |-> idx, rnd |-> rnd + 1,
                         name |-> CurrentCall.function.name],
                        [ev |-> "import_fail"] >>
    /\ UNCHANGED <<history, rnd, message, idx, inflight, mainLoaded, nchats,
                   sent, sentTools, cur, parked>>

\* _execute_tool with a name none of the six branches takes: the else branch.
DispatchUnknown ==
    /\ pc = "tools"
    /\ idx <= Len(ToolCallsOf(message))
    /\ CanStart
    /\ LET name == CurrentCall.function.name
           result == UnknownToolResult(name)
       IN  /\ Resolve(name) = "unknown"
           /\ mainLoaded' = TRUE
           /\ AppendResult(name, result, idx + 1, inflight,
                  log \o << [ev |-> "tool_start", i |-> idx, rnd |-> rnd + 1,
                             name |-> name],
                            [ev |-> "tool_end", i |-> idx, name |-> name,
                             rnd |-> rnd + 1, raised |-> FALSE,
                             err |-> << >>, result |-> result] >>)
    /\ UNCHANGED <<message, nchats, cur, parked>>

\* _execute_tool with a registered name: the collaborator is called, awaited.
DispatchInvoke ==
    /\ pc = "tools"
    /\ idx <= Len(ToolCallsOf(message))
    /\ CanStart
    /\ LET name == CurrentCall.function.name
           args == CurrentCall.function.arguments
       IN  /\ Resolve(name) # "unknown"
           /\ mainLoaded' = TRUE
           /\ inflight' = inflight \cup
                  { [i |-> idx, name |-> name, fn |-> Resolve(name),
                     kwargs |-> Kwargs(name, args)] }
           /\ log' = log \o << [ev |-> "tool_start", i |-> idx,
                                rnd |-> rnd + 1, name |-> name],
                               [ev |-> "collab", i |-> idx,
                                fn |-> Resolve(name),
                                kwargs |-> Kwargs(name, args)] >>
    /\ idx' = idx + 1
    /\ UNCHANGED <<history, pc, rnd, message, outcome, nchats, sent,
                   sentTools, cur, parked>>

\* The awaited collaborator returns a value.
ToolReturn(c, v) ==
    /\ pc = "tools"
    /\ c \in inflight
    /\ AppendResult(c.name, v, idx, inflight \ {c},
           Append(log, [ev |-> "tool_end", i |-> c.i, name |-> c.name,
                        rnd |-> rnd + 1, raised |-> FALSE, err |-> << >>,
                        result |-> v]))
    /\ UNCHANGED <<message, mainLoaded, nchats, cur, parked>>

\* The awaited collaborator raises: except Exception as e: {"error": str(e)}.
ToolRaise(c, e) ==
    /\ pc = "tools"
    /\ c \in inflight
    /\ AppendResult(c.name, ErrorResult(e), idx, inflight \ {c},
           Append(log, [ev |-> "tool_end", i |-> c.i, name |-> c.name,
                        rnd |-> rnd + 1, raised |-> TRUE, err |-> e,
                        result |-> ErrorResult(e)]))
    /\ UNCHANGED <<message, mainLoaded, nchats, cur, parked>>

Next ==
    \/ \E q \in Queries : nchats < MaxChats /\ Chat(q)
    \/ \E e \in ModelErrors : ModelRaise(e)
    \/ \E m \in Responses : ModelAnswer(m)
    \/ \E m \in Responses : ModelRequestsTools(m)
    \/ DispatchImportFails
    \/ DispatchUnknown
    \/ DispatchInvoke
    \/ \E c \in inflight : \E v \in CollabResults : ToolReturn(c, v)
    \/ \E c \in inflight : \E e \in CollabErrors : ToolRaise(c, e)

Spec == Init /\ [][Next]_vars

\* The pending client.chat call returns or raises.
ModelResponds ==
    \/ \E e \in ModelErrors : ModelRaise(e)
    \/ \E m \in Responses : ModelAnswer(m)
    \/ \E m \in Responses : ModelRequestsTools(m)

\* The inner for loop takes up its next request.
Dispatches == DispatchImportFails \/ DispatchUnknown \/ DispatchInvoke

\* The awaited collaborator call returns or raises.
CollabCompletes ==
    \/ \E c \in inflight : \E v \in CollabResults : ToolReturn(c, v)
    \/ \E c \in inflight : \E e \in CollabErrors : ToolRaise(c, e)

\* Every model call and every collaborator call eventually returns or raises,
\* and the coroutine goes on whenever it is not waiting for one of them.
FairSpec ==
    /\ Spec
    /\ WF_vars(ModelResponds)
    /\ WF_vars(Dispatches)
    /\ WF_vars(CollabCompletes)

----------------------------------------------------------------------------
(* A session: several chat calls, one after the other, on one instance,    *)
(* the model asking for one tool at a time and giving it arguments.        *)

MaxSessionChats == 2

\* Requests with arguments: a tool that declares the argument, and the
\* database listing given an argument its schema does not declare.
SessionToolCalls ==
    { [function |-> [name |-> "superset_database_schemas",
                     arguments |-> [database_id |-> 1]]],
      [function |-> [name |-> "superset_database_list",
                     arguments |-> [page |-> 1]]] }

SessionResponses ==
    { [role |-> "assistant", content |-> t] : t \in AnswerTexts }
    \cup { [role |-> "assistant", content |-> << >>, tool_calls |-> <<tc>>] :
             tc \in SessionToolCalls }

SessionNext ==
    \/ \E q \in Queries : nchats < MaxSessionChats /\ Chat(q)
    \/ \E e \in ModelErrors : ModelRaise(e)
    \/ \E m \in SessionResponses : ModelAnswer(m)
    \/ \E m \in SessionResponses : ModelRequestsTools(m)
    \/ DispatchImportFails
    \/ DispatchInvoke
    \/ \E c \in inflight : \E v \in CollabResults : ToolReturn(c, v)
    \/ \E c \in inflight : \E e \in CollabErrors : ToolRaise(c, e)

SessionSpec == Init /\ [][SessionNext]_vars

----------------------------------------------------------------------------
(* Two callers on one event loop.  client.chat is a synchronous call, so   *)
(* the loop can turn to the other caller only where the running chat call  *)
(* awaits a collaborator, or when the running caller is not in a chat      *)
(* call.  The variables of the chat call and of the instance are those of  *)
(* the running caller; parked keeps the other's.  sys.modules (mainLoaded) *)
(* belongs to the process.                                                 *)

\* The running caller's chat call and instance, as parked keeps them.
Own ==
    [ self |-> cur, history |-> history, pc |-> pc, rnd |-> rnd,
      message |-> message, idx |-> idx, inflight |-> inflight,
      outcome |-> outcome, nchats |-> nchats, log |-> log, sent |-> sent,
      sentTools |-> sentTools ]

\* The event loop turns to the other caller.  With both callers on one
\* instance self.history is the same list for both (the copy in parked is
\* then not read); on distinct instances each has its own.
SwitchCaller ==
    /\ pc = "idle" \/ (pc = "tools" /\ inflight # {})
    /\ cur' = parked.self
    /\ history' = IF parked.self = cur THEN history ELSE InstanceHistory(parked)
    /\ pc' = parked.pc
    /\ rnd' = parked.rnd
    /\ message' = parked.message
    /\ idx' = parked.idx
    /\ inflight' = parked.inflight
    /\ outcome' = parked.outcome
    /\ nchats' = parked.nchats
    /\ log' = parked.log
    /\ sent' = parked.sent
    /\ sentTools' = parked.sentTools
    /\ parked' = Own
    /\ UNCHANGED mainLoaded

\* The query each instance's caller asks.
QueryFor(i) == IF i = 1 THEN <<"list databases">> ELSE <<"list datasets">>

\* The model answers with text or asks for the database listing.
PairResponses ==
    { [role |-> "assistant", content |-> t] : t \in AnswerTexts }
    \cup { [role |-> "assistant", content |-> << >>,
            tool_calls |-> << [function |->
                                 [name |-> "superset_database_list",
                                  arguments |-> << >>]] >>] }

\* One chat call by each caller.
PairNext ==
    \/ nchats = 0 /\ Chat(QueryFor(cur))
    \/ \E e \in ModelErrors : ModelRaise(e)
    \/ \E m \in PairResponses : ModelAnswer(m)
    \/ \E m \in PairResponses : ModelRequestsTools(m)
    \/ DispatchImportFails
    \/ DispatchInvoke
    \/ \E c \in inflight : \E v \in CollabResults : ToolReturn(c, v)
    \/ \E c \in inflight : \E e \in CollabErrors : ToolRaise(c, e)
    \/ SwitchCaller

\* Two agent instances, a caller on each.
TwoInstanceSpec == Init /\ [][PairNext]_vars

\* One agent instance and two callers of it.
InitOneInstance == InitAgent /\ parked = IdleCaller(1)

OneInstanceSpec == InitOneInstance /\ [][PairNext]_vars

----------------------------------------------------------------------------
(* Reading the log of the running chat call *)

ModelCallIdx == { p \in DOMAIN log : log[p].ev = "model_call" }

ResponseIdx == { p \in DOMAIN log : log[p].ev = "model_response" }

ModelRaiseIdx == { p \in DOMAIN log : log[p].ev = "model_raise" }

ToolStartIdx == { p \in DOMAIN log : log[p].ev = "tool_start" }

ToolEndIdx == { p \in DOMAIN log : log[p].ev = "tool_end" }

CollabIdx == { p \in DOMAIN log : log[p].ev = "collab" }

NModelCalls == Cardinality(ModelCallIdx)

\* A chat call has been made and has ended (returned or raised).
ChatEnded == nchats > 0 /\ pc = "idle"

\* The model call just issued is the last thing the chat call did.
ModelCallPending == pc = "await_model"

RequestsTools(p) == ToolCallsOf(log[p].msg) # << >>

\* t holds sub as a contiguous piece.
Contains(t, sub) ==
    /\ Len(sub) <= Len(t)
    /\ \E i \in 0..(Len(t) - Len(sub)) : SubSeq(t, i + 1, i + Len(sub)) = sub

----------------------------------------------------------------------------
(* C1: a chat call never issues more than 5 model calls, and a chat call    *)
(* whose every model call was answered by a response requesting at least   *)
(* one tool issues exactly 5 model calls and returns the loop-limit        *)
(* sentinel.                                                               *)
C1_RoundBudget ==
    /\ NModelCalls <= 5
    /\ ( /\ ChatEnded
         /\ ModelRaiseIdx = {}
         /\ \A p \in ResponseIdx : RequestsTools(p) )
       => /\ NModelCalls = 5
          /\ outcome = Returned(LoopLimitMessage)

(* C2: if the k-th response of a chat call is the first without tool       *)
(* invocation requests, chat has returned that response's content          *)
(* unchanged after exactly k model calls, nothing was dispatched after     *)
(* that response, and for k = 1 nothing was dispatched at all.             *)
C2_FinalAnswer ==
    \A p \in ResponseIdx :
        ( /\ ~RequestsTools(p)
          /\ \A q \in ResponseIdx : q < p => RequestsTools(q) )
        => LET k == Cardinality({ q \in ResponseIdx : q <= p })
           IN  /\ k \in 1..5
               /\ pc = "idle"
               /\ outcome = Returned(log[p].msg.content)
               /\ NModelCalls = k
               /\ p = Len(log)
               /\ \A q \in ToolStartIdx \cup CollabIdx : q < p
               /\ k = 1 => ToolStartIdx = {}

\* A chat call that answered in its fifth round, after four rounds of tools.
C2_Witness ==
    /\ ChatEnded
    /\ Cardinality(ResponseIdx) = 5
    /\ ~RequestsTools(Len(log))
    /\ outcome = Returned(log[Len(log)].msg.content)
    /\ Contains(outcome.value, <<QUOTE>>)

(* C3: once the model call of some round raises, the chat call has ended   *)
(* by returning a text that holds the failure's message; nothing follows   *)
(* the failing call: no model call, no dispatch.                           *)
C3_ModelFailure ==
    \A p \in ModelRaiseIdx :
        /\ p = Len(log)
        /\ pc = "idle"
        /\ inflight = {}
        /\ outcome.kind = "return"
        /\ Contains(outcome.value, log[p].err)
        /\ outcome.value # log[p].err
        /\ NModelCalls = rnd + 1

\* The model call of the third round raised, after two rounds of tools.
C3_Witness ==
    /\ ChatEnded
    /\ ModelRaiseIdx # {}
    /\ NModelCalls = 3
    /\ Cardinality(ToolEndIdx) >= 2
    /\ outcome.kind = "return"

(* C4: a dispatch of a name outside the six registered ones returns        *)
(* {"error": "Unknown tool: <name>"}, raises nothing and calls no          *)
(* collaborator; the payload is appended as a tool message and the chat    *)
(* call goes on.                                                           *)
C4_UnknownOperation ==
    \A p \in ToolStartIdx :
        Resolve(log[p].name) = "unknown"
        => /\ p < Len(log)
           /\ log[p + 1].ev = "tool_end"
           /\ log[p + 1].result = [error |-> <<"Unknown tool: ", log[p].name>>]
           /\ \E j \in DOMAIN history :
                 /\ history[j].role = "tool"
                 /\ history[j].name = log[p].name
                 /\ Contains(history[j].content, <<"Unknown tool: ", log[p].name>>)
           /\ outcome.kind # "raise"

(* C5: whatever fails while a dispatch resolves and calls the              *)
(* collaborator, no exception leaves the dispatch: every dispatch that     *)
(* has ended handed chat a result, an {"error": message} payload when      *)
(* something failed, and chat never ends by raising.                       *)
C5_FailureContained ==
    /\ outcome.kind # "raise"
    /\ \A p \in ToolStartIdx :
          p < Len(log) => log[p + 1].ev \in {"tool_end", "collab"}
    /\ \A p \in ToolEndIdx :
          log[p].raised => log[p].result = [error |-> log[p].err]

----------------------------------------------------------------------------
(* Reading the conversation *)

IsToolMessage(m) == m.role = "tool"

IsToolEnd(ev) == ev.ev = "tool_end"

IsDispatchEvent(ev) == ev.ev \in {"tool_start", "tool_end"}

\* The index of the last user message of h (0 when there is none).
LastUserIdx(h) ==
    LET us == { i \in DOMAIN h : h[i].role = "user" }
    IN  IF us = {} THEN 0 ELSE CHOOSE i \in us : \A k \in us : k <= i

\* The tool messages of h that follow its last user message.
ToolMessagesSince(h) ==
    SelectSeq(SubSeq(h, LastUserIdx(h) + 1, Len(h)), IsToolMessage)

\* The tool messages the results of the running chat call amount to, in the
\* order the results came.
ResultMessages ==
    LET ends == SelectSeq(log, IsToolEnd)
    IN  [ j \in 1..Len(ends) |->
            [role |-> "tool", content |-> JsonDumps(ends[j].result),
             name |-> ends[j].name] ]

AssistantIdx == { i \in DOMAIN history : history[i].role = "assistant" }

\* The j messages after the assistant message at a are tool messages: the
\* answers to its first j requests.
Answered(a, j) ==
    /\ a + j <= Len(history)
    /\ \A k \in 1..j : history[a + k].role = "tool"

ToolMessageIdx == { i \in DOMAIN history : history[i].role = "tool" }

\* The text json.dumps makes of {"error": e}.
ErrorJson(e) ==
    <<"{", QUOTE, "error", QUOTE, ": ", QUOTE>> \o JsonEscape(e)
    \o <<QUOTE, "}">>

(* C6 as claimed: whenever a collaborator call raised, in whichever round,  *)
(* the chat call goes on to a next model call, and the messages of that    *)
(* call hold the error text (read here as its JSON-escaped form).          *)
C6_ToolErrorsReachModel ==
    /\ ModelCallPending =>
          \A p \in ToolEndIdx :
              log[p].raised =>
                  \E j \in DOMAIN sent :
                      Contains(sent[j].content, JsonEscape(log[p].err))
    /\ ChatEnded =>
          \A p \in ToolEndIdx :
              log[p].raised => \E q \in ModelCallIdx : q > p

(* C6 amended: a collaborator call that raised in round 1..4 is followed   *)
(* by the next model call of the chat call, whose messages hold a tool     *)
(* message with the JSON text of {"error": message}; one that raised in    *)
(* round 5 has its error appended to the history, the round completes and  *)
(* chat returns the loop-limit sentinel without a further model call.      *)
C6_ToolErrorsReachModelAmended ==
    /\ ModelCallPending =>
          \A p \in ToolEndIdx :
              log[p].raised =>
                  \E j \in DOMAIN sent :
                      /\ sent[j].role = "tool"
                      /\ sent[j].name = log[p].name
                      /\ sent[j].content = ErrorJson(log[p].err)
    /\ ChatEnded =>
          \A p \in ToolEndIdx :
              log[p].raised =>
                  IF log[p].rnd < 5
                  THEN \E q \in ModelCallIdx : q > p
                  ELSE /\ outcome = Returned(LoopLimitMessage)
                       /\ \A q \in ModelCallIdx : q < p
                       /\ \E j \in DOMAIN history :
                             /\ history[j].role = "tool"
                             /\ history[j].content = ErrorJson(log[p].err)
    /\ \A p \in ToolEndIdx : log[p].raised => outcome.kind # "raise"

\* The second model call is out, and a collaborator raised in round 1.
C6_Witness ==
    /\ ModelCallPending
    /\ NModelCalls = 2
    /\ \E p \in ToolEndIdx : log[p].raised /\ log[p].rnd = 1
    /\ \E j \in DOMAIN sent : Contains(sent[j].content, <<BSLASH, QUOTE>>)

(* C7: from the last user message on, the history is that message, then   *)
(* groups of one assistant message and tool messages; the tool messages    *)
(* of a group answer the requests of its assistant message in order, each  *)
(* tagged with its request's name, and a group is complete before the      *)
(* next one starts.                                                        *)
C7_ConversationOrdering ==
    LET u == LastUserIdx(history)
        n == Len(history)
    IN  u > 0 =>
        \A i \in (u + 1)..n :
            /\ history[i].role \in {"assistant", "tool"}
            /\ i = u + 1 => history[i].role = "assistant"
            /\ history[i].role = "assistant" =>
                  LET calls == ToolCallsOf(history[i])
                      next == i + Len(calls) + 1
                  IN  /\ \A j \in 1..Len(calls) :
                            i + j <= n =>
                                /\ history[i + j].role = "tool"
                                /\ history[i + j].name = calls[j].function.name
                      /\ next <= n => history[next].role = "assistant"

\* Two groups: a round of two requests with different names, both answered,
\* then a second assistant message with an answered request.
C7_Witness ==
    LET u == LastUserIdx(history)
    IN  /\ u > 0
        /\ Len(history) >= u + 5
        /\ Len(ToolCallsOf(history[u + 1])) = 2
        /\ history[u + 2].role = "tool"
        /\ history[u + 3].role = "tool"
        /\ history[u + 2].name # history[u + 3].name
        /\ history[u + 4].role = "assistant"
        /\ history[u + 5].role = "tool"

(* C8: at most one dispatch is in flight; the dispatches of a chat call   *)
(* start and end in turn, the i-th of a round starting after the (i-1)-th  *)
(* has ended, and the results so far are in the history, in the order of   *)
(* the dispatches; the messages of a model call hold all of them.          *)
C8_SequentialDispatch ==
    LET evs == SelectSeq(log, IsDispatchEvent)
    IN  /\ Cardinality(inflight) <= 1
        /\ \A k \in 1..Len(evs) :
              IF k % 2 = 1
              THEN /\ evs[k].ev = "tool_start"
                   /\ IF k > 1 /\ evs[k - 1].rnd = evs[k].rnd
                      THEN evs[k].i = evs[k - 1].i + 1
                      ELSE evs[k].i = 1
              ELSE /\ evs[k].ev = "tool_end"
                   /\ evs[k].i = evs[k - 1].i
                   /\ evs[k].rnd = evs[k - 1].rnd
        /\ ToolMessagesSince(history) = ResultMessages
        /\ ModelCallPending => ToolMessagesSince(sent) = ResultMessages

\* The second model call is out after a round of two dispatches, the first
\* of which called a collaborator.
C8_Witness ==
    /\ ModelCallPending
    /\ NModelCalls = 2
    /\ Cardinality(ToolEndIdx) = 2
    /\ CollabIdx # {}
    /\ Len(ToolMessagesSince(sent)) = 2

(* C9 as claimed: the name tag of every tool message equals the name of    *)
(* exactly one request of the round it answers.                            *)
C9_UnambiguousCorrelation ==
    \A a \in AssistantIdx :
        LET calls == ToolCallsOf(history[a])
        IN  \A j \in 1..Len(calls) :
                Answered(a, j)
                => Cardinality({ k \in 1..Len(calls) :
                       calls[k].function.name = history[a + j].name }) = 1

(* C9 amended: the tag of a tool message is the name of the request at     *)
(* the same position of its round; it names exactly one request when no    *)
(* other request of the round has that name, and otherwise the k-th tool   *)
(* message with a tag answers the k-th request with that name.             *)
C9_PositionalCorrelation ==
    /\ \A i \in ToolMessageIdx :
          i > 1 /\ history[i - 1].role \in {"assistant", "tool"}
    /\ \A a \in AssistantIdx :
          LET calls == ToolCallsOf(history[a])
          IN  \A j \in 1..Len(calls) :
                  Answered(a, j) =>
                      LET tag == history[a + j].name
                          same == { k \in 1..Len(calls) :
                                      calls[k].function.name = tag }
                      IN  /\ j \in same
                          /\ Cardinality({ k \in same : k <= j })
                               = Cardinality({ k \in 1..j :
                                                 history[a + k].name = tag })
                          /\ Cardinality(same) = 1 => same = {j}

\* A round whose two requests have the same name, both answered.
C9_Witness ==
    \E i \in ToolMessageIdx :
        /\ i > 2
        /\ history[i - 1].role = "tool"
        /\ history[i - 1].name = history[i].name
        /\ history[i - 2].role = "assistant"

(* C10: every model call is given the same set of tool names, and it is    *)
(* the set of the six names dispatch has a branch for: no name of the      *)
(* schema list is unknown to dispatch, no name of dispatch is missing      *)
(* from the list.                                                          *)
C10_SchemaMatchesDispatch ==
    LET dispatchable == { n \in NameUniverse : Resolve(n) # "unknown" }
        advertised == { sentTools[i] : i \in 1..Len(sentTools) }
    IN  /\ nchats > 0 =>
              /\ advertised = dispatchable
              /\ \A n \in advertised : Resolve(n) # "unknown"
              /\ Cardinality(advertised) = 6
              /\ Len(sentTools) = 6
        /\ \A p \in ModelCallIdx : log[p].tools = advertised

\* The model call of the fifth round is out.
C10_Witness ==
    /\ ModelCallPending
    /\ NModelCalls = 5
    /\ Len(sentTools) = 6

----------------------------------------------------------------------------
\* The response of the running chat call that the log event at p belongs to.
ResponseBefore(p) ==
    CHOOSE r \in ResponseIdx : r < p /\ \A q \in ResponseIdx : q < p => q <= r

(* C11: every collaborator call made by dispatch is the collaborator of    *)
(* the requested name, called with exactly the argument mapping of the     *)
(* request as keyword parameters.                                          *)
C11_ArgumentPassThrough ==
    \A p \in CollabIdx :
        LET call == ToolCallsOf(log[ResponseBefore(p)].msg)[log[p].i]
        IN  /\ log[p].fn = call.function.name
            /\ log[p].kwargs = call.function.arguments

\* What chat may return: the content of a response without tool requests,
\* the loop-limit sentinel, or the model-failure message.
AllowedReturn(v) ==
    \/ v = <<"Agent loop limit reached without final answer.">>
    \/ \E p \in ResponseIdx : ~RequestsTools(p) /\ v = log[p].msg.content
    \/ \E p \in ModelRaiseIdx :
          v = <<"Error communicating with Ollama: ">> \o log[p].err

(* C12: a running chat call always has a next step while the model and the *)
(* collaborators answer, and a chat call that has ended has returned, not  *)
(* raised, one of: the content of a response without tool requests, the    *)
(* loop-limit sentinel, the model-failure message.                         *)
C12_TerminationOutcome ==
    /\ (nchats > 0 /\ pc # "idle") => ENABLED Next
    /\ ChatEnded =>
          /\ outcome.kind = "return"
          /\ AllowedReturn(outcome.value)

\* Under FairSpec every chat call ends (by returning, or by the exception of
\* the import in dispatch).
C12_EventuallyEnds == (pc # "idle") ~> (pc = "idle")

----------------------------------------------------------------------------
UserIdx == { i \in DOMAIN history : history[i].role = "user" }

(* C13: over any sequence of chat calls on the instance, every step leaves *)
(* the history as it is or appends one message to it: the history before   *)
(* a step is a prefix of the history after it.                             *)
C13_AppendOnly ==
    [][ \/ history' = history
        \/ /\ Len(history') = Len(history) + 1
           /\ SubSeq(history', 1, Len(history)) = history ]_vars

\* Two chat calls have ended, the first by the exception of the import, and
\* the second has appended its messages after those of the first.
C13_Witness ==
    /\ nchats = 2
    /\ ChatEnded
    /\ Cardinality(UserIdx) = 2
    /\ \E i \in UserIdx : i > 2 /\ history[i - 1].role = "assistant"
                                /\ ToolCallsOf(history[i - 1]) # << >>
    /\ history[Len(history)].role = "tool"

(* C18: the first message of the history is the system prompt and no      *)
(* other message has the system role; each chat call starts its rounds at  *)
(* zero and has five of them, whatever the calls before it used; and the   *)
(* first model call of a chat call is sent the whole history as the        *)
(* earlier chat calls left it, followed by the new user query.             *)
C18_SystemPromptCarryOver ==
    /\ [] /\ history[1] = [role |-> "system", content |-> SYSTEM_PROMPT]
          /\ \A i \in DOMAIN history : history[i].role = "system" => i = 1
          /\ ModelCallPending => /\ NModelCalls = rnd + 1
                                 /\ NModelCalls <= 5
                                 /\ sent = history
    /\ [][ nchats' # nchats =>
             /\ rnd' = 0
             /\ \E q \in Queries :
                   /\ history' = Append(history, [role |-> "user", content |-> q])
                   /\ sent' = history' ]_vars

\* The second chat call on the instance is at its fifth model call, the
\* first chat call having used a round of its own: six model calls in all.
C18_Witness ==
    /\ nchats = 2
    /\ ModelCallPending
    /\ NModelCalls = 5
    /\ Cardinality(UserIdx) = 2
    /\ Len(sent) = Len(history)

----------------------------------------------------------------------------
\* The tool invocation requests of all responses of the running chat call.
RequestsMade ==
    UNION { { <<p, j>> : j \in 1..Len(ToolCallsOf(log[p].msg)) } :
            p \in ResponseIdx }

(* C16: when chat has returned the loop-limit sentinel, it made five model *)
(* calls, each answered with tool requests; every request of every round  *)
(* was dispatched and ended, as many dispatches as requests; the requests  *)
(* of the fifth round have their results appended after the messages of    *)
(* the last model call, so the history ends with a tool message that no    *)
(* model call of this chat call was sent.                                  *)
C16_ExhaustionUnseenResults ==
    (ChatEnded /\ outcome = Returned(LoopLimitMessage)) =>
        LET last == ToolCallsOf(message)
        IN  /\ Cardinality(ResponseIdx) = 5
            /\ NModelCalls = 5
            /\ \A p \in ResponseIdx : RequestsTools(p)
            /\ Cardinality(ToolStartIdx) = Cardinality(RequestsMade)
            /\ Cardinality(ToolEndIdx) = Cardinality(RequestsMade)
            /\ last # << >>
            /\ Len(history) = Len(sent) + 1 + Len(last)
            /\ SubSeq(history, 1, Len(sent)) = sent
            /\ history[Len(sent) + 1] = message
            /\ \A j \in 1..Len(last) :
                  /\ history[Len(sent) + 1 + j].role = "tool"
                  /\ history[Len(sent) + 1 + j].name = last[j].function.name
            /\ history[Len(history)].role = "tool"

\* chat returned the sentinel after five rounds of one request each, the
\* last result being the error of a collaborator that raised.
C16_Witness ==
    /\ ChatEnded
    /\ outcome = Returned(LoopLimitMessage)
    /\ Cardinality(RequestsMade) = 5
    /\ Len(history) > Len(sent) + 1
    /\ log[Len(log)].ev = "tool_end"
    /\ log[Len(log)].raised

(* C17: when a model call has raised, the history is exactly the messages  *)
(* that call was sent: the user query, then an assistant message and its   *)
(* tool messages for each earlier round; it holds no assistant message     *)
(* for the failed call, and the chat call appends nothing after it.        *)
C17_FailureFrame ==
    \A p \in ModelRaiseIdx :
        LET u == LastUserIdx(history)
        IN  /\ history = sent
            /\ u > 0
            /\ Len(history) = u + Cardinality(ResponseIdx)
                                + Cardinality(ToolEndIdx)
            /\ Cardinality({ i \in AssistantIdx : i > u })
                 = Cardinality(ResponseIdx)
            /\ Cardinality(ResponseIdx) = NModelCalls - 1
            /\ history[Len(history)].role \in {"user", "tool"}
            /\ \A q \in DOMAIN log : q > p => FALSE

\* The model call of the second round raised: the history ends with the
\* tool message of the first round, which no assistant message answers.
C17_Witness ==
    /\ ChatEnded
    /\ ModelRaiseIdx # {}
    /\ NModelCalls = 2
    /\ history = sent
    /\ history[Len(history)].role = "tool"

----------------------------------------------------------------------------
IsAppended(ev) == ev.ev \in {"model_response", "tool_end"}

\* The messages a chat call appends for the responses and tool results of
\* its log lg.
Appended(lg) ==
    LET evs == SelectSeq(lg, IsAppended)
    IN  [ j \in 1..Len(evs) |->
            IF evs[j].ev = "model_response"
            THEN evs[j].msg
            ELSE [role |-> "tool", content |-> JsonDumps(evs[j].result),
                  name |-> evs[j].name] ]

\* The history of instance i had its caller run alone: the system prompt,
\* and once chat is called (n > 0) the query and what the call appended.
AloneHistory(i, n, lg) ==
    IF n = 0
    THEN << [role |-> "system", content |-> SYSTEM_PROMPT] >>
    ELSE << [role |-> "system", content |-> SYSTEM_PROMPT],
            [role |-> "user", content |-> QueryFor(i)] >> \o Appended(lg)

(* C14: with a chat call on each of two instances, interleaved wherever    *)
(* the event loop can switch, each instance's history is at every moment   *)
(* (and so at the end) the one its own query, responses and tool results   *)
(* give when run alone; a model call is sent its own instance's history;   *)
(* a step of one caller leaves the other instance as it is.                *)
C14_InstanceIsolation ==
    /\ [] /\ history = AloneHistory(cur, nchats, log)
          /\ parked.history
               = AloneHistory(parked.self, parked.nchats, parked.log)
          /\ ModelCallPending => sent = history
          /\ parked.self # cur
    /\ [][ IF cur' = cur
           THEN parked' = parked
           ELSE /\ history' = parked.history
                /\ parked'.history = history ]_vars

\* Both chat calls are in their second round and both await a collaborator.
C14_Witness ==
    /\ pc = "tools" /\ inflight # {} /\ rnd = 1
    /\ parked.pc = "tools" /\ parked.inflight # {} /\ parked.rnd = 1
    /\ history # parked.history

====
